---- MODULE Spec2Model ----
(***************************************************************************)
(* The two position-lifecycle simulations of the pair-trading backtester:  *)
(*   SimpleBacktest.run               (src/src/engine.py)                  *)
(*   PortfolioManager._run_simulation (src/src/portfolio.py)               *)
(*                                                                         *)
(* Numbers.  The code computes in float64; the model computes in integers  *)
(* of a fixed unit, so that its sums are exact:                            *)
(*   Z_Score            tenths            (-2.0 is -20, 0.3 is 3)          *)
(*   model prediction   hundredths        (0.9 is 90)                      *)
(*   Spread             whole price units                                  *)
(*   entry/exit price   thousandths of a price unit                        *)
(*   SimpleBacktest money   cents; a quotient is rounded down to the cent  *)
(*   PortfolioManager money 1/146000 of a dollar (MoneyScale), the unit in *)
(*                      which all three cost terms are whole numbers       *)
(*   Target_Return      hundredths                                         *)
(* A calendar date is a day number; day 0 is a Monday, so the weekday of   *)
(* day d is d % 7 with Monday = 0 as in pandas.                            *)
(***************************************************************************)
EXTENDS Integers, Sequences, FiniteSets, TLC

VARIABLES
    engine,             \* which simulation this run is: "SB" or "PM"
    pc,                 \* position of the running simulation in its code
    max_positions,      \* self.max_positions of the running object
    \* ---- SimpleBacktest (engine.py)
    realized_equity,    \* self.realized_equity
    positions,          \* self.positions: insertion-ordered dict, as a sequence of entries
    trades,             \* self.trades
    equity_curve,       \* self.equity_curve: sequence of <<date, total_equity>>
    date,               \* the date of the current iteration (both engines)
    day_data,           \* df[df.index == date]: the rows of the date, in df order
    df_max,             \* <<last_date, last_data>> of engine.py 73-74, once the loop has
                        \* read the largest date of df
    scenario1,          \* history: how many dates so far are those of Scenario 1 (-1: not all)
    \* ---- PortfolioManager._run_simulation (portfolio.py)
    strategy,           \* 'LSTM' or 'Hybrid'
    hold_period,
    equity,
    available_capital,
    open_positions,     \* list of [close_date, invested, pnl] (+ history fields, see Position)
    equity_history,
    position_history,
    trade_count,
    skipped_count,
    sim_index,          \* sim_df.index of the rows processed so far
    closed,             \* history: the positions closed so far, each with the date of its close
    paid_cost,          \* history: sum of total_cost over the trades executed so far
    signal_count,       \* history: the rows processed so far on which has_signal held
    \* ---- the input and direct calls
    columns,            \* df.columns: the fields every row of the signal stream has
    call                \* a direct call of a utility: its arguments and, once made, its result

sbvars == <<realized_equity, positions, trades, equity_curve, day_data, df_max, scenario1>>
pmvars == <<strategy, hold_period, equity, available_capital, open_positions, equity_history,
            position_history, trade_count, skipped_count, sim_index, closed, paid_cost,
            signal_count>>

(***************************************************************************)
(* Bounds and input domains                                                *)
(***************************************************************************)
MaxDates == 3                    \* dates in the df given to SimpleBacktest.run
Pairs == {"A", "B"}
NaN == 9999                      \* the model's value for a float NaN Z_Score
ZScores == {-20, 3, 20}
Preds == {10, 90}
Spreads == {10, 12}
MaxPositions == {1, 2}

(***************************************************************************)
(* SimpleBacktest: configuration (engine.py __init__)                      *)
(***************************************************************************)
initial_capital == 1000000       \* 10000 dollars, in cents
position_risk_pct == 2           \* 0.02, in hundredths
transaction_cost == 4            \* 0.004, in thousandths
ENTRY_Z == 15                    \* 1.5
EXIT_Z == 5                      \* 0.5
MODEL_CONFIDENCE == 55           \* 0.55

\* The fields read by the two simulations; pred is the model_col of run
AllColumns == {"Pair_ID", "Spread", "Z_Score", "pred", "LSTM_Pred", "Ridge_Pred",
               "Target_Return", "Target_Direction"}
\* no direct call is under way
NoCall == <<>>
\* the largest date of df has not been read: no date, no rows
NoLast == <<0, <<>>>>

Abs(x) == IF x < 0 THEN -x ELSE x

\* abs(z) < EXIT_Z on floats: any comparison with NaN is False
AbsLess(z, bound) == z # NaN /\ Abs(z) < bound

\* mutant of Less: NaN ordered like a number (above every Z-score)
LessOrdersNaN(a, b) == a < b

Less(a, b) == a # NaN /\ b # NaN /\ a < b

(***************************************************************************)
(* The insertion-ordered dict self.positions                               *)
(***************************************************************************)
HasKey(ps, p) == \E i \in 1..Len(ps) : ps[i].pair_id = p
Keys(ps) == [i \in 1..Len(ps) |-> ps[i].pair_id]
Get(ps, p) == ps[CHOOSE i \in 1..Len(ps) : ps[i].pair_id = p]
Pop(ps, p) == SelectSeq(ps, LAMBDA e : e.pair_id # p)
\* d[k] = v: a present key keeps its place and has its value replaced
SetItem(ps, p, v) ==
    IF HasKey(ps, p)
    THEN [i \in 1..Len(ps) |-> IF ps[i].pair_id = p THEN v ELSE ps[i]]
    ELSE Append(ps, v)

\* day_data[day_data['Pair_ID'] == pair_id]
RowsOf(day, p) == SelectSeq(day, LAMBDA r : r.Pair_ID = p)

\* price * (1 + tc) or price * (1 - tc), in thousandths
PriceUp(spread_price) == spread_price * (1000 + transaction_cost)
PriceDown(spread_price) == spread_price * (1000 - transaction_cost)

\* (price - pos['entry_price']) * pos['size'] * pos['direction'], where
\* size = capital / entry_spread; in cents, rounded down
PositionPnl(pos, price) ==
    ((price - pos.entry_price) * pos.capital * pos.direction)
        \div (1000 * pos.entry_spread)

\* The ledger a method works on: [positions, realized_equity, trades]
Ledger(ps, eq, ts) == [positions |-> ps, realized_equity |-> eq, trades |-> ts]

_open_position(L, pair_id, spread_price, d, direction) ==
    LET capital == (L.realized_equity * position_risk_pct) \div 100
        entry_price == IF direction > 0 THEN PriceUp(spread_price)
                                        ELSE PriceDown(spread_price)
        pos == [pair_id |-> pair_id, entry_price |-> entry_price,
                entry_spread |-> spread_price, direction |-> direction,
                capital |-> capital]
    IN  Ledger(SetItem(L.positions, pair_id, pos),
               L.realized_equity,
               Append(L.trades, [date |-> d, pair |-> pair_id, type |-> "entry",
                                 direction |-> IF direction > 0 THEN "LONG" ELSE "SHORT"]))

\* mutant of _close_position: the position closed at the spread price itself,
\* the transaction cost of the exit left out
_close_positionAtSpread(L, pair_id, spread_price, d, reason) ==
    IF ~HasKey(L.positions, pair_id) THEN L
    ELSE
    LET pos == Get(L.positions, pair_id)
        pnl == PositionPnl(pos, spread_price * 1000)
    IN  Ledger(Pop(L.positions, pair_id),
               L.realized_equity + pnl,
               Append(L.trades, [date |-> d, pair |-> pair_id, type |-> "exit",
                                 realized_pnl |-> pnl,
                                 pnl_pct |-> IF pos.capital > 0
                                             THEN (pnl * 10000) \div pos.capital
                                             ELSE 0]))

\* mutant of _close_position: the test for a missing position left out, a
\* pair that holds nothing is closed with a pnl of 0
_close_positionUnguarded(L, pair_id, spread_price, d, reason) ==
    LET held == HasKey(L.positions, pair_id)
        pos == Get(L.positions, pair_id)
        exit_price == IF pos.direction > 0 THEN PriceDown(spread_price)
                                           ELSE PriceUp(spread_price)
        pnl == IF held THEN PositionPnl(pos, exit_price) ELSE 0
    IN  Ledger(Pop(L.positions, pair_id),
               L.realized_equity + pnl,
               Append(L.trades, [date |-> d, pair |-> pair_id, type |-> "exit",
                                 realized_pnl |-> pnl,
                                 pnl_pct |-> IF held /\ pos.capital > 0
                                             THEN (pnl * 10000) \div pos.capital
                                             ELSE 0]))

\* engine.py 104-121
_close_position(L, pair_id, spread_price, d, reason) ==
    IF ~HasKey(L.positions, pair_id) THEN L
    ELSE
    LET pos == Get(L.positions, pair_id)
        exit_price == IF pos.direction > 0 THEN PriceDown(spread_price)
                                           ELSE PriceUp(spread_price)
        pnl == PositionPnl(pos, exit_price)
    IN  Ledger(Pop(L.positions, pair_id),
               L.realized_equity + pnl,
               Append(L.trades, [date |-> d, pair |-> pair_id, type |-> "exit",
                                 realized_pnl |-> pnl,
                                 pnl_pct |-> IF pos.capital > 0
                                             THEN (pnl * 10000) \div pos.capital
                                             ELSE 0]))

\* mutant of ExitSignal: the absolute value forgotten
ExitSignalSigned(z_score) == Less(z_score, EXIT_Z)

\* engine.py 44: the exit rule
ExitSignal(z_score) == AbsLess(z_score, EXIT_Z)

\* engine.py 62 and 66: the entry rules
LongEntry(row) == Less(row.Z_Score, -ENTRY_Z) /\ row.pred > MODEL_CONFIDENCE
ShortEntry(row) == Less(ENTRY_Z, row.Z_Score) /\ row.pred < 100 - MODEL_CONFIDENCE

\* engine.py 36-45: the exit loop over list(self.positions.keys())
RECURSIVE ExitLoop(_, _, _, _)
ExitLoop(L, keys, day, d) ==
    IF keys = <<>> THEN L
    ELSE LET pair_id == Head(keys)
             row == RowsOf(day, pair_id)
         IN  IF row = <<>> THEN ExitLoop(L, Tail(keys), day, d)
             ELSE IF ExitSignal(row[1].Z_Score)
                  THEN ExitLoop(_close_position(L, pair_id, row[1].Spread, d, "Mean Reversion"),
                                Tail(keys), day, d)
                  ELSE ExitLoop(L, Tail(keys), day, d)

\* mutant of EntryAllowed: the max_positions guard dropped
EntryAllowedNoLimit(L, pair_id, maxp) == ~HasKey(L.positions, pair_id)

\* mutant of EntryAllowed: the guard on a pair already held dropped
EntryAllowedHeld(L, pair_id, maxp) == ~(Len(L.positions) >= maxp)

\* engine.py 51-55: the two guards of an entry
EntryAllowed(L, pair_id, maxp) ==
    ~HasKey(L.positions, pair_id) /\ ~(Len(L.positions) >= maxp)

\* engine.py 48-67: the entry loop over day_data.iterrows()
RECURSIVE EntryLoop(_, _, _, _)
EntryLoop(L, rows, d, maxp) ==
    IF rows = <<>> THEN L
    ELSE LET row == Head(rows)
         IN  IF ~EntryAllowed(L, row.Pair_ID, maxp)
             THEN EntryLoop(L, Tail(rows), d, maxp)
             ELSE IF LongEntry(row)
                  THEN EntryLoop(_open_position(L, row.Pair_ID, row.Spread, d, 1),
                                 Tail(rows), d, maxp)
                  ELSE IF ShortEntry(row)
                       THEN EntryLoop(_open_position(L, row.Pair_ID, row.Spread, d, -1),
                                      Tail(rows), d, maxp)
                       ELSE EntryLoop(L, Tail(rows), d, maxp)

\* engine.py 123-138
RECURSIVE Unrealized(_, _)
Unrealized(ps, day) ==
    IF ps = <<>> THEN 0
    ELSE LET pos == Head(ps)
             row == RowsOf(day, pos.pair_id)
         IN  IF row = <<>> THEN Unrealized(Tail(ps), day)
             ELSE LET current_price == IF pos.direction > 0 THEN PriceDown(row[1].Spread)
                                                           ELSE PriceUp(row[1].Spread)
                  IN  PositionPnl(pos, current_price) + Unrealized(Tail(ps), day)

\* mutant of _mark_to_market: the open positions left out of the total
_mark_to_marketRealizedOnly(L, day) == L.realized_equity

_mark_to_market(L, day) == L.realized_equity + Unrealized(L.positions, day)

\* engine.py 72-79: close the remaining positions at the last date's rows
RECURSIVE DrainLoop(_, _, _, _)
DrainLoop(L, keys, last_data, last_date) ==
    IF keys = <<>> THEN L
    ELSE LET pair_id == Head(keys)
             row == RowsOf(last_data, pair_id)
         IN  IF row # <<>>
             THEN DrainLoop(_close_position(L, pair_id, row[1].Spread, last_date, "End of Backtest"),
                            Tail(keys), last_data, last_date)
             ELSE DrainLoop(L, Tail(keys), last_data, last_date)

(***************************************************************************)
(* The rows of one date: one row per pair present, in any order            *)
(***************************************************************************)
\* Spread is the price of the pair on the date, Z_Score its distance from the
\* rolling mean in rolling deviations (features.py 25-27): a Z_Score far below
\* zero occurs at a high price as well as at a low one, so a row carries any
\* Spread with any Z_Score.  The prediction is read only by the entry rules
\* (engine.py 59-66), which fail on a Z_Score within ENTRY_Z of zero whatever
\* it is: such a row carries one prediction value.  The rows are bounded to:
\* pair A below the entry threshold with and without a confident prediction,
\* near the mean, and above the threshold with a confident prediction; pair B
\* below the threshold with a confident prediction, and near the mean.
SignalRows ==
    {r \in [Pair_ID : Pairs, Z_Score : ZScores, Spread : Spreads, pred : Preds] :
        /\ Abs(r.Z_Score) <= ENTRY_Z => r.pred = 90
        /\ r.Z_Score > ENTRY_Z => r.pred = 10
        /\ r.Pair_ID = "B" => r.Z_Score <= ENTRY_Z /\ r.pred = 90}
\* The rows of a date in df order.  The order of two rows decides which pair
\* takes the last free slot of the entry loop (engine.py 48-55) when both
\* pass an entry rule: such rows come in both orders, other rows with pair A
\* first.
DayDatas ==
    {<<r>> : r \in SignalRows}
    \cup {rs \in SignalRows \X SignalRows :
             /\ rs[1].Pair_ID # rs[2].Pair_ID
             /\ rs[1].Pair_ID = "B" =>
                    /\ LongEntry(rs[1]) \/ ShortEntry(rs[1])
                    /\ LongEntry(rs[2]) \/ ShortEntry(rs[2])}

CurLedger == Ledger(positions, realized_equity, trades)
SetLedger(L) ==
    /\ positions' = L.positions
    /\ realized_equity' = L.realized_equity
    /\ trades' = L.trades

(***************************************************************************)
(* PortfolioManager: configuration and cost parameters                     *)
(***************************************************************************)
MaxRows == 3                     \* rows of the sim_df given to _run_simulation
MoneyScale == 146000             \* PortfolioManager money units per dollar
Strategies == {"LSTM", "Hybrid"}
HoldPeriods == {2}
StartDates == {4}                \* the date before the first step: a Friday
DateSteps == {0, 1, 3}           \* days from one row to the next (0: same date)
BinaryPreds == {0, 1}
TargetReturns == {-5, 3}

total_capital == 1000            \* dollars
capital_per_trade == 100         \* dollars
cost_per_trade == 2              \* dollars
z_threshold == 15                \* 1.5
slippage_pct == 10               \* 0.001, in 1/10000
spread_pct == 5                  \* 0.0005, in 1/10000
short_borrow_rate == 2           \* 0.02, in hundredths

Dollars(x) == x * MoneyScale

Weekday(d) == d % 7

\* portfolio.py 80-88
RECURSIVE AddTradingDaysLoop(_, _, _)
AddTradingDaysLoop(current, added, days) ==
    IF added < days
    THEN LET next == current + 1
         IN  AddTradingDaysLoop(next, IF Weekday(next) < 5 THEN added + 1 ELSE added, days)
    ELSE current
\* mutant of _add_trading_days: calendar days added, weekends not skipped
_add_trading_daysCalendar(start_date, days) == start_date + days

_add_trading_days(start_date, days) == AddTradingDaysLoop(start_date, 0, days)

\* features.py 65: Target_Direction = (Target_Return > 0)
TargetDirection(target_return) == IF target_return > 0 THEN 1 ELSE 0

\* The rows that can follow a row dated d: sim_df is sorted by date, and its
\* dates are weekdays
PMRows(d) ==
    {r \in [date : {d + k : k \in DateSteps}, Pair_ID : Pairs, Z_Score : ZScores,
            LSTM_Pred : BinaryPreds, Ridge_Pred : BinaryPreds,
            Target_Return : TargetReturns, Target_Direction : BinaryPreds] :
        /\ Weekday(r.date) < 5
        /\ r.Target_Direction = TargetDirection(r.Target_Return)}

\* portfolio.py 127-132
LongSignal(strat, row) ==
    IF strat = "LSTM"
    THEN Less(row.Z_Score, -z_threshold) /\ row.LSTM_Pred = 1
    ELSE Less(row.Z_Score, -z_threshold) /\ row.LSTM_Pred = 1 /\ row.Ridge_Pred = 1
ShortSignal(strat, row) ==
    IF strat = "LSTM"
    THEN Less(z_threshold, row.Z_Score) /\ row.LSTM_Pred = 0
    ELSE Less(z_threshold, row.Z_Score) /\ row.LSTM_Pred = 0 /\ row.Ridge_Pred = 0
HasSignal(strat, row) == LongSignal(strat, row) \/ ShortSignal(strat, row)

\* mutant of Expired: a position is closed only after its close date
ExpiredLate(d, pos) == d > pos.close_date

\* portfolio.py 119: the test that closes a position at a row dated d
Expired(d, pos) == d >= pos.close_date

\* portfolio.py 118-122, on the state [available_capital, equity, open_positions,
\* closed]; list.remove takes out the first element equal to pos
RemoveFirst(ps, pos) ==
    LET Same(q) == q.close_date = pos.close_date /\ q.invested = pos.invested /\ q.pnl = pos.pnl
        i == CHOOSE j \in 1..Len(ps) : Same(ps[j]) /\ \A k \in 1..(j - 1) : ~Same(ps[k])
    IN  SubSeq(ps, 1, i - 1) \o SubSeq(ps, i + 1, Len(ps))

\* mutant of ClosePosition: the pnl is not credited to available_capital
ClosePositionNoPnl(S, pos, d) ==
    [available_capital |-> S.available_capital + pos.invested,
     equity |-> S.equity + pos.pnl,
     open_positions |-> RemoveFirst(S.open_positions, pos),
     closed |-> Append(S.closed, [pos |-> pos, closed_on |-> d])]

\* mutant of ClosePosition: the position is credited but stays in the list
ClosePositionKept(S, pos, d) ==
    [available_capital |-> S.available_capital + pos.invested + pos.pnl,
     equity |-> S.equity + pos.pnl,
     open_positions |-> S.open_positions,
     closed |-> Append(S.closed, [pos |-> pos, closed_on |-> d])]

\* portfolio.py 120-122: the close of one position at a row dated d
ClosePosition(S, pos, d) ==
    [available_capital |-> S.available_capital + pos.invested + pos.pnl,
     equity |-> S.equity + pos.pnl,
     open_positions |-> RemoveFirst(S.open_positions, pos),
     closed |-> Append(S.closed, [pos |-> pos, closed_on |-> d])]

RECURSIVE CloseExpired(_, _, _)
CloseExpired(S, snapshot, d) ==
    IF snapshot = <<>> THEN S
    ELSE LET pos == Head(snapshot)
         IN  IF Expired(d, pos)
             THEN CloseExpired(ClosePosition(S, pos, d), Tail(snapshot), d)
             ELSE CloseExpired(S, Tail(snapshot), d)

\* portfolio.py 140: capital_per_trade * 1.1 is a float64 product, and
\* 100 * 1.1 is 110.00000000000001.  BufferedCapital is 11/10 of
\* capital_per_trade on the model's money grid, the exact amount next to it
BufferedCapital == (Dollars(capital_per_trade) * 11) \div 10

\* portfolio.py 140, the capital half of can_trade: the float64
\* available_capital compared with the float64 product.  The model keeps the
\* exact amount; the float differs from it by the rounding of the additions
\* and subtractions that produced it (l.120, l.155), far less than one unit
\* of the grid.  An exact amount above BufferedCapital passes and one below
\* fails.  At exactly BufferedCapital the float decides: a balance that is
\* still the total_capital given to the constructor is 110.0 and fails; a
\* computed balance lies at or next to 110.0 on either side
\* (518.6 - 4 * 102.15 is 110.00000000000006 and passes,
\* 314.3 - 2 * 102.15 is 110.0 and fails), and the exact amount does not
\* tell which: both outcomes are kept
CapitalTest(avail, computed) ==
    IF avail > BufferedCapital THEN {TRUE}
    ELSE IF avail < BufferedCapital THEN {FALSE}
    ELSE IF computed THEN {TRUE, FALSE}
    ELSE {FALSE}

\* mutant of CanTrade: the buffer factor 1.1 left out of the capital test
CanTradeNoBuffer(ps, avail, maxp, computed) ==
    {Len(ps) < maxp /\ avail >= Dollars(capital_per_trade)}

\* portfolio.py 138-141: the values can_trade can take
CanTrade(ps, avail, maxp, computed) ==
    {Len(ps) < maxp /\ enough : enough \in CapitalTest(avail, computed)}

\* mutant of TotalCost: the borrow cost charged on a long position too
TotalCostBorrowAlways(is_short, hold) ==
    Dollars(cost_per_trade)
        + (Dollars(capital_per_trade) * slippage_pct) \div 10000
        + (Dollars(capital_per_trade) * spread_pct) \div 10000
        + (Dollars(capital_per_trade) * short_borrow_rate * hold) \div (100 * 365)

\* portfolio.py 145-152
TotalCost(is_short, hold) ==
    LET slippage_cost == (Dollars(capital_per_trade) * slippage_pct) \div 10000
        spread_cost == (Dollars(capital_per_trade) * spread_pct) \div 10000
        borrow_cost == (Dollars(capital_per_trade) * short_borrow_rate * hold) \div (100 * 365)
    IN  Dollars(cost_per_trade) + slippage_cost + spread_cost
            + (IF is_short THEN borrow_cost ELSE 0)

\* mutant of OpenDebit: the cost is not taken from available_capital
OpenDebitNoCost(total_cost) == Dollars(capital_per_trade)

\* portfolio.py 155: what an open takes from available_capital
OpenDebit(total_cost) == Dollars(capital_per_trade) + total_cost

\* portfolio.py 159-171
TradePnl(is_long, row) ==
    LET gain == (Dollars(capital_per_trade) * Abs(row.Target_Return)) \div 100
    IN  IF is_long
        THEN IF row.Target_Direction = 1 THEN gain ELSE -gain
        ELSE IF row.Target_Direction = 0 THEN gain ELSE -gain

\* portfolio.py 174-180; the fields after pnl are history fields, taken from
\* the row that opened the position: its Pair_ID, its date, the side of the
\* signal (a long signal has Z_Score < -z_threshold), its Target_Return and
\* its Target_Direction
Position(row, hold, pnl) ==
    [close_date |-> _add_trading_days(row.date, hold),
     invested |-> Dollars(capital_per_trade),
     pnl |-> pnl,
     pair |-> row.Pair_ID,
     open_date |-> row.date,
     direction |-> IF Less(row.Z_Score, -z_threshold) THEN "Long" ELSE "Short",
     target_return |-> row.Target_Return,
     target_direction |-> row.Target_Direction]

\* The dfs given to run that have a single pair with Z-scores -2.0, -2.0, 0.3
\* and prediction 0.9 (Scenario 1 of the specification), at any Spread
Scenario1 == <<-20, -20, 3>>
TrackScenario1(n, rows) ==
    IF /\ n >= 0 /\ n < Len(Scenario1)
       /\ Len(rows) = 1
       /\ rows[1].Pair_ID = "A" /\ rows[1].pred = 90
       /\ rows[1].Z_Score = Scenario1[n + 1]
    THEN n + 1 ELSE -1

(***************************************************************************)
(* SimpleBacktest.run                                                      *)
(***************************************************************************)
InitSB ==
    /\ realized_equity = initial_capital
    /\ positions = <<>>
    /\ trades = <<>>
    /\ equity_curve = <<>>
    /\ day_data = <<>>
    /\ df_max = NoLast
    /\ scenario1 = 0

\* engine.py 32-45: the loop takes the next date of df.index.unique() and its
\* rows, one of datas, and processes the exits
ProcessExits(datas) ==
    /\ engine = "SB" /\ pc = "loop"
    /\ date < MaxDates
    /\ date' = date + 1
    /\ \E rows \in datas :
          /\ day_data' = rows
          /\ scenario1' = TrackScenario1(scenario1, rows)
          /\ SetLedger(ExitLoop(CurLedger, Keys(positions), rows, date'))
    /\ pc' = "entries"
    /\ UNCHANGED <<columns, call, engine, max_positions, equity_curve, df_max>>
    /\ UNCHANGED pmvars

\* engine.py 47-67
SBProcessEntries ==
    /\ engine = "SB" /\ pc = "entries"
    /\ SetLedger(EntryLoop(CurLedger, day_data, date, max_positions))
    /\ pc' = "mark"
    /\ UNCHANGED <<columns, call, engine, max_positions, equity_curve, date, day_data,
                   df_max, scenario1>>
    /\ UNCHANGED pmvars

\* engine.py 69-70, and the loop going on to its next date or ending.  The df
\* is sorted by date (backtest_run.py 17): a date followed by another is not
\* df.index.max(), the date the loop ends with is
SBMarkToMarket ==
    /\ engine = "SB" /\ pc = "mark"
    /\ equity_curve' = Append(equity_curve, <<date, _mark_to_market(CurLedger, day_data)>>)
    /\ \/ /\ date < MaxDates
          /\ pc' = "loop"
          /\ day_data' = <<>>
          /\ UNCHANGED df_max
       \/ /\ pc' = "drain"
          /\ df_max' = <<date, day_data>>
          /\ UNCHANGED day_data
    /\ UNCHANGED <<columns, call, engine, max_positions, realized_equity, positions, trades, date, scenario1>>
    /\ UNCHANGED pmvars

\* engine.py 32 on a df without rows: df.index.unique() is empty, and the body
\* of the loop is not entered.  df.index.max() is NaN and last_data has no row
SBEmptyDf ==
    /\ engine = "SB" /\ pc = "loop" /\ date = 0
    /\ pc' = "drain"
    /\ df_max' = NoLast
    /\ UNCHANGED <<columns, call, engine, max_positions, date, realized_equity, positions,
                   trades, equity_curve, day_data, scenario1>>
    /\ UNCHANGED pmvars

\* engine.py 72-81: the positions are closed at the rows of
\* last_date = df.index.max(), and the records are dated last_date; the rows
\* selected go out of scope at the return
SBDrain ==
    /\ engine = "SB" /\ pc = "drain"
    /\ SetLedger(DrainLoop(CurLedger, Keys(positions), df_max[2], df_max[1]))
    /\ day_data' = <<>>
    /\ df_max' = NoLast
    /\ pc' = "done"
    /\ UNCHANGED <<columns, call, engine, max_positions, equity_curve, date, scenario1>>
    /\ UNCHANGED pmvars

SBProcessExits == ProcessExits(DayDatas)

NextSB == SBProcessExits \/ SBProcessEntries \/ SBMarkToMarket \/ SBEmptyDf \/ SBDrain

(***************************************************************************)
(* PortfolioManager._run_simulation                                        *)
(***************************************************************************)
InitPM ==
    /\ strategy \in Strategies
    /\ hold_period \in HoldPeriods
    /\ equity = Dollars(total_capital)
    /\ available_capital = Dollars(total_capital)
    /\ open_positions = <<>>
    /\ equity_history = <<>>
    /\ position_history = <<>>
    /\ trade_count = 0
    /\ skipped_count = 0
    /\ sim_index = <<>>
    /\ closed = <<>>
    /\ paid_cost = 0
    /\ signal_count = 0

\* portfolio.py 115-188: one iteration of the loop over sim_df.iterrows(), at
\* the value can_trade the test of l.138-141 gave
PMLoopBody(row, can_trade) ==
    LET after_close == CloseExpired([available_capital |-> available_capital,
                                     equity |-> equity,
                                     open_positions |-> open_positions,
                                     closed |-> closed],
                                    open_positions, row.date)
        long_signal == LongSignal(strategy, row)
        short_signal == ShortSignal(strategy, row)
        has_signal == long_signal \/ short_signal
        total_cost == TotalCost(short_signal, hold_period)
        pnl == TradePnl(long_signal, row)
        opens == has_signal /\ can_trade
    IN  /\ date' = row.date
        /\ closed' = after_close.closed
        /\ available_capital' = IF opens
                                THEN after_close.available_capital - OpenDebit(total_cost)
                                ELSE after_close.available_capital
        /\ equity' = IF opens THEN after_close.equity - total_cost ELSE after_close.equity
        /\ paid_cost' = IF opens THEN paid_cost + total_cost ELSE paid_cost
        /\ open_positions' = IF opens
                             THEN Append(after_close.open_positions, Position(row, hold_period, pnl))
                             ELSE after_close.open_positions
        /\ trade_count' = IF opens THEN trade_count + 1 ELSE trade_count
        /\ skipped_count' = IF has_signal /\ ~can_trade THEN skipped_count + 1
                                                       ELSE skipped_count
        /\ signal_count' = IF has_signal THEN signal_count + 1 ELSE signal_count
        /\ equity_history' = Append(equity_history, equity')
        /\ position_history' = Append(position_history, Len(open_positions'))
        /\ sim_index' = Append(sim_index, row.date)

\* portfolio.py 117-141: the values can_trade can take at a row, read after
\* the expired positions are closed.  available_capital is a computed
\* balance once a trade has been debited (l.155); until then it is the
\* total_capital of the constructor (l.106)
RowCanTrade(row) ==
    LET after_close == CloseExpired([available_capital |-> available_capital,
                                     equity |-> equity,
                                     open_positions |-> open_positions,
                                     closed |-> closed],
                                    open_positions, row.date)
    IN  CanTrade(after_close.open_positions, after_close.available_capital,
                 max_positions, trade_count > 0)

\* portfolio.py 115-188: one iteration of the loop over sim_df.iterrows()
PMProcessRow(row) ==
    \E can_trade \in RowCanTrade(row) : PMLoopBody(row, can_trade)

PMRow ==
    /\ engine = "PM" /\ pc = "rows"
    /\ Len(sim_index) < MaxRows
    /\ \E row \in PMRows(date) : PMProcessRow(row)
    /\ UNCHANGED <<columns, call, engine, pc, max_positions, strategy, hold_period>>
    /\ UNCHANGED sbvars

\* portfolio.py 190-195
PMReturn ==
    /\ engine = "PM" /\ pc = "rows"
    /\ pc' = "done"
    /\ UNCHANGED <<columns, call, engine, max_positions, date>>
    /\ UNCHANGED pmvars
    /\ UNCHANGED sbvars

NextPM == PMRow \/ PMReturn

\* PortfolioManager(strategy_engine, total_capital, max_positions) constructed
\* with a total_capital, in cents, that pays for a single trade only: 205.00
\* (once a position is open, less than capital_per_trade * 1.1 is available),
\* 110.00 (the constructor's 110.0 is below the float64 product 100 * 1.1)
\* and 212.15 (the debit of a long entry, 102.15, leaves 110 exactly)
TotalCapitals == {20500, 11000, 21215}
InitCapital ==
    /\ engine = "PM"
    /\ pc = "rows"
    /\ max_positions \in MaxPositions
    /\ date \in StartDates
    /\ InitSB
    /\ strategy \in Strategies
    /\ hold_period \in HoldPeriods
    /\ \E capital \in TotalCapitals :
          /\ equity = capital * (MoneyScale \div 100)
          /\ available_capital = capital * (MoneyScale \div 100)
    /\ open_positions = <<>>
    /\ equity_history = <<>>
    /\ position_history = <<>>
    /\ trade_count = 0
    /\ skipped_count = 0
    /\ sim_index = <<>>
    /\ closed = <<>>
    /\ paid_cost = 0
    /\ signal_count = 0
    /\ columns = AllColumns
    /\ call = NoCall

vars == <<engine, pc, max_positions, date, sbvars, pmvars, columns, call>>

\* Both objects as constructed; one of the two simulations is run
Init ==
    /\ engine \in {"SB", "PM"}
    /\ pc = IF engine = "SB" THEN "loop" ELSE "rows"
    /\ max_positions \in MaxPositions
    /\ date \in IF engine = "SB" THEN {0} ELSE StartDates
    /\ InitSB
    /\ InitPM
    /\ engine = "SB" => strategy = "LSTM"
    /\ columns = AllColumns
    /\ call = NoCall

Next == NextSB \/ NextPM
Spec == Init /\ [][Next]_vars

\* _run_simulation alone, on a PortfolioManager short of capital
SpecCapital == InitCapital /\ [][NextPM]_vars

\* features.py 64: Target_Return = spread.shift(-horizon) - spread is a
\* difference of spreads, not a fraction of the capital: it exceeds 1 in
\* magnitude when the spread moves by more than one unit (-120: -1.2)
LossReturns == {-120, 3}
LossRows(d) ==
    {r \in [date : {d + k : k \in DateSteps}, Pair_ID : Pairs, Z_Score : ZScores,
            LSTM_Pred : BinaryPreds, Ridge_Pred : BinaryPreds,
            Target_Return : LossReturns, Target_Direction : BinaryPreds] :
        /\ Weekday(r.date) < 5
        /\ r.Target_Direction = TargetDirection(r.Target_Return)}

\* PortfolioManager(strategy_engine, total_capital=120, max_positions)
LossCapitals == {120}
InitLosses ==
    /\ engine = "PM"
    /\ pc = "rows"
    /\ max_positions \in MaxPositions
    /\ date \in StartDates
    /\ InitSB
    /\ strategy \in Strategies
    /\ hold_period \in HoldPeriods
    /\ \E capital \in LossCapitals :
          /\ equity = Dollars(capital)
          /\ available_capital = Dollars(capital)
    /\ open_positions = <<>>
    /\ equity_history = <<>>
    /\ position_history = <<>>
    /\ trade_count = 0
    /\ skipped_count = 0
    /\ sim_index = <<>>
    /\ closed = <<>>
    /\ paid_cost = 0
    /\ signal_count = 0
    /\ columns = AllColumns
    /\ call = NoCall

\* portfolio.py 115-188 on a row of a stream with such target returns
PMRowLosses ==
    /\ engine = "PM" /\ pc = "rows"
    /\ Len(sim_index) < MaxRows
    /\ \E row \in LossRows(date) : PMProcessRow(row)
    /\ UNCHANGED <<columns, call, engine, pc, max_positions, strategy, hold_period>>
    /\ UNCHANGED sbvars

NextLosses == PMRowLosses \/ PMReturn

\* _run_simulation alone, on a stream with spread moves larger than one unit
SpecLosses == InitLosses /\ [][NextLosses]_vars

(***************************************************************************)
(* SimpleBacktest.run on a signal stream with NaN Z-scores                 *)
(***************************************************************************)
\* The Z_Score of a row is NaN while the rolling window of features.py 25-27
\* is not full; the Spread of such a row is a price like any other.  The
\* other rows open long positions (-2.0) and close them (0.3).
GapRows ==
    {r \in [Pair_ID : Pairs, Z_Score : {-20, 3, NaN}, Spread : Spreads, pred : Preds] :
        /\ r.Z_Score # NaN => r.pred = 90
        /\ r.Pair_ID = "B" => r.pred = 90}
\* two rows of a date in both orders when both pass an entry rule, as in
\* DayDatas
GapDayDatas ==
    {<<r>> : r \in GapRows}
    \cup {rs \in GapRows \X GapRows :
             /\ rs[1].Pair_ID # rs[2].Pair_ID
             /\ rs[1].Pair_ID = "B" => LongEntry(rs[1]) /\ LongEntry(rs[2])}

InitGaps ==
    /\ engine = "SB"
    /\ pc = "loop"
    /\ max_positions \in MaxPositions
    /\ date = 0
    /\ InitSB
    /\ InitPM
    /\ strategy = "LSTM"
    /\ columns = AllColumns
    /\ call = NoCall

SBProcessExitsGaps == ProcessExits(GapDayDatas)

NextGaps ==
    SBProcessExitsGaps \/ SBProcessEntries \/ SBMarkToMarket \/ SBEmptyDf \/ SBDrain
SpecGaps == InitGaps /\ [][NextGaps]_vars

(***************************************************************************)
(* SimpleBacktest.run called twice on one instance                         *)
(***************************************************************************)
\* The rows of the df given to both calls: pair A falls below the entry
\* threshold and reverts, pair B falls below it; one pair per date
RerunRows ==
    {r \in SignalRows :
        /\ r.pred = 90
        /\ \/ r.Pair_ID = "A" /\ r.Z_Score \in {-20, 3}
           \/ r.Pair_ID = "B" /\ r.Z_Score = -20}
RerunDayDatas == {<<r>> : r \in RerunRows}

SBProcessExitsRerun == ProcessExits(RerunDayDatas)

\* engine.py 29-33: run is entered again on the same object.  realized_equity,
\* positions, trades and equity_curve are assigned in __init__ only (21-27);
\* run starts its loop over the dates of df with what the object holds.  The
\* object is run twice: equity_curve has the points of one run.
SBRunAgain ==
    /\ engine = "SB" /\ pc = "done"
    /\ Len(equity_curve) <= MaxDates
    /\ pc' = "loop"
    /\ date' = 0
    /\ UNCHANGED <<columns, call, engine, max_positions>>
    /\ UNCHANGED sbvars
    /\ UNCHANGED pmvars

NextRerun ==
    \/ SBProcessExitsRerun \/ SBProcessEntries \/ SBMarkToMarket \/ SBEmptyDf \/ SBDrain
    \/ SBRunAgain
SpecRerun == InitGaps /\ [][NextRerun]_vars

(***************************************************************************)
(* SimpleBacktest.run on a df that is not sorted by date                   *)
(***************************************************************************)
\* the dates of the curve points: the dates the loop has processed
ProcessedLabels == {equity_curve[i][1] : i \in 1..Len(equity_curve)}

\* engine.py 32-45 on a df whose dates come in any order: df.index.unique()
\* yields each date once, in the order of its first row, and day_data has all
\* the rows of the date.  df_max holds the rows of the largest date read
SBProcessExitsUnsorted ==
    /\ engine = "SB" /\ pc = "loop"
    /\ Len(equity_curve) < MaxDates
    /\ \E d \in (1..MaxDates) \ ProcessedLabels, rows \in RerunDayDatas :
          /\ date' = d
          /\ day_data' = rows
          /\ df_max' = IF d > df_max[1] THEN <<d, rows>> ELSE df_max
          /\ scenario1' = -1
          /\ SetLedger(ExitLoop(CurLedger, Keys(positions), rows, d))
    /\ pc' = "entries"
    /\ UNCHANGED <<columns, call, engine, max_positions, equity_curve>>
    /\ UNCHANGED pmvars

\* engine.py 69-70, and the loop going on to the next date of df or ending
SBMarkToMarketUnsorted ==
    /\ engine = "SB" /\ pc = "mark"
    /\ equity_curve' = Append(equity_curve, <<date, _mark_to_market(CurLedger, day_data)>>)
    /\ \/ /\ Len(equity_curve') < MaxDates
          /\ pc' = "loop"
          /\ day_data' = <<>>
       \/ /\ pc' = "drain"
          /\ UNCHANGED day_data
    /\ UNCHANGED <<columns, call, engine, max_positions, realized_equity, positions, trades,
                   date, df_max, scenario1>>
    /\ UNCHANGED pmvars

NextUnsorted ==
    \/ SBProcessExitsUnsorted \/ SBProcessEntries \/ SBMarkToMarketUnsorted
    \/ SBEmptyDf \/ SBDrain
SpecUnsorted == InitGaps /\ [][NextUnsorted]_vars

(***************************************************************************)
(* A signal stream that lacks a field                                      *)
(***************************************************************************)
\* backtesting_engine.py 31
required_cols == {"Z_Score", "Target_Direction", "Ridge_Pred", "LSTM_Pred"}

\* The fields a simulation reads from a row: engine.py 37-59 (49, 57, 58,
\* 59), portfolio.py 125-132 and 159-160
FieldsRead(e, strat) ==
    IF e = "SB" THEN {"Pair_ID", "Z_Score", "Spread", "pred"}
    ELSE {"Z_Score", "LSTM_Pred", "Target_Return", "Target_Direction"}
             \cup (IF strat = "Hybrid" THEN {"Ridge_Pred"} ELSE {})

\* SimpleBacktest().run(df, model_col) is given df as it is; a
\* PortfolioManager is built on a StrategyEngine, whose __init__ loads df
InitColumns ==
    /\ engine \in {"SB", "PM"}
    /\ pc = IF engine = "SB" THEN "loop" ELSE "load"
    /\ max_positions \in MaxPositions
    /\ date \in IF engine = "SB" THEN {0} ELSE StartDates
    /\ InitSB
    /\ InitPM
    /\ columns \in {AllColumns \ {c} : c \in FieldsRead(engine, strategy)}
    /\ call = NoCall

\* backtesting_engine.py 22 and 29-36: ValueError when a required column is
\* missing, and no StrategyEngine, hence no PortfolioManager, exists
PMLoadData ==
    /\ engine = "PM" /\ pc = "load"
    /\ pc' = IF required_cols \subseteq columns THEN "rows" ELSE "rejected"
    /\ UNCHANGED <<columns, call, engine, max_positions, date>>
    /\ UNCHANGED sbvars
    /\ UNCHANGED pmvars

\* portfolio.py 115-188 on a df without Target_Return: row['Target_Return']
\* (159) raises KeyError, after the closes of the row (118-122) and the debit
\* of capital and cost (155-156); a row that opens nothing is processed whole
PMRowColumns ==
    /\ engine = "PM" /\ pc = "rows"
    /\ Len(sim_index) < MaxRows
    /\ \E row \in PMRows(date) :
        \E can_trade \in RowCanTrade(row) :
          LET S == CloseExpired([available_capital |-> available_capital,
                                 equity |-> equity,
                                 open_positions |-> open_positions,
                                 closed |-> closed],
                                open_positions, row.date)
              opens == HasSignal(strategy, row) /\ can_trade
              total_cost == TotalCost(ShortSignal(strategy, row), hold_period)
          IN  IF opens /\ "Target_Return" \notin columns
              THEN /\ pc' = "failed"
                   /\ date' = row.date
                   /\ available_capital' = S.available_capital - OpenDebit(total_cost)
                   /\ equity' = S.equity - total_cost
                   /\ open_positions' = S.open_positions
                   /\ closed' = S.closed
                   /\ UNCHANGED <<equity_history, position_history, trade_count,
                                  skipped_count, sim_index, paid_cost, signal_count>>
              ELSE /\ PMLoopBody(row, can_trade)
                   /\ UNCHANGED pc
    /\ UNCHANGED <<columns, call, engine, max_positions, strategy, hold_period>>
    /\ UNCHANGED sbvars

\* engine.py 32-59 on a df without one of the four fields run reads, given to
\* an object that holds no position and has max_positions >= 1.  On the first
\* date the exit loop (36) has nothing to do, and the first row of the entry
\* loop reads Pair_ID (49), passes the two guards (51, 54) and reads Z_Score,
\* Spread and model_col (57-59): one of the reads raises KeyError
SBKeyError ==
    /\ engine = "SB" /\ pc = "loop" /\ date = 0
    /\ positions = <<>> /\ max_positions >= 1
    /\ ~(FieldsRead("SB", strategy) \subseteq columns)
    /\ date' = date + 1
    /\ \E rows \in DayDatas : day_data' = rows
    /\ pc' = "failed"
    /\ UNCHANGED <<columns, call, engine, max_positions, realized_equity, positions,
                   trades, equity_curve, df_max, scenario1>>
    /\ UNCHANGED pmvars

\* run on a df without rows reads no column: it ends as on any empty df
NextColumns ==
    PMLoadData \/ PMRowColumns \/ PMReturn \/ SBKeyError \/ SBEmptyDf \/ SBDrain
SpecColumns == InitColumns /\ [][NextColumns]_vars

(***************************************************************************)
(* PortfolioManager._add_trading_days called directly                      *)
(***************************************************************************)
MaxDays == 6                     \* the largest number of trading days asked for
StartDays == 0..13               \* two weeks of start dates, weekends included

InitTradingDays ==
    /\ engine = "PM"
    /\ pc = "call"
    /\ max_positions \in MaxPositions
    /\ date \in StartDates
    /\ InitSB
    /\ InitPM
    /\ columns = AllColumns
    /\ call \in [start_date : StartDays, days : 1..MaxDays]

\* portfolio.py 80-88: the call returns
AddTradingDaysCall ==
    /\ pc = "call"
    /\ call' = [start_date |-> call.start_date, days |-> call.days,
                result |-> _add_trading_days(call.start_date, call.days)]
    /\ pc' = "returned"
    /\ UNCHANGED <<columns, engine, max_positions, date>>
    /\ UNCHANGED sbvars
    /\ UNCHANGED pmvars

SpecTradingDays == InitTradingDays /\ [][AddTradingDaysCall]_vars

(***************************************************************************)
(* Properties                                                              *)
(***************************************************************************)
RECURSIVE SumInvested(_)
SumInvested(ps) == IF ps = <<>> THEN 0 ELSE Head(ps).invested + SumInvested(Tail(ps))
RECURSIVE SumClosedPnl(_)
SumClosedPnl(cs) == IF cs = <<>> THEN 0 ELSE Head(cs).pos.pnl + SumClosedPnl(Tail(cs))

TradesOf(p) == SelectSeq(trades, LAMBDA t : t.pair = p)
Entries(ts) == SelectSeq(ts, LAMBDA t : t.type = "entry")
Exits(ts) == SelectSeq(ts, LAMBDA t : t.type = "exit")
EntrySignal(row) == LongEntry(row) \/ ShortEntry(row)
TradedToday(p) == \E i \in 1..Len(trades) : trades[i].pair = p /\ trades[i].date = date

\* C1: the number of open positions never exceeds max_positions, in
\* SimpleBacktest.run (positions) and in _run_simulation (open_positions).
C1_MaxConcurrency ==
    /\ Len(positions) <= max_positions
    /\ Len(open_positions) <= max_positions

\* C1 witness: the limit is reached and an entry has been turned away by it:
\* in SimpleBacktest a row with an entry signal of a pair that holds nothing,
\* in _run_simulation a skipped signal.
C1_Witness_SB ==
    /\ engine = "SB" /\ pc = "mark" /\ Len(positions) = max_positions
    /\ \E i \in 1..Len(day_data) :
          EntrySignal(day_data[i]) /\ ~HasKey(positions, day_data[i].Pair_ID)
C1_Witness_PM ==
    /\ engine = "PM" /\ Len(open_positions) = max_positions /\ skipped_count > 0
C1_Witness == C1_Witness_SB \/ C1_Witness_PM

\* C2: in SimpleBacktest.run positions holds at most one entry per pair_id,
\* and a row of a pair that already holds a position neither opens nor
\* replaces it: no entry record is appended for a held pair, and a position
\* open before and after a step is the same position.
C2_SinglePositionPerPair ==
    [][ /\ \A i, j \in 1..Len(positions') :
              i # j => positions'[i].pair_id # positions'[j].pair_id
        /\ \A p \in Pairs :
              HasKey(positions, p) /\ HasKey(positions', p)
                  => Get(positions', p) = Get(positions, p)
        /\ \A k \in (Len(trades) + 1)..Len(trades') :
              trades'[k].type = "entry" => ~HasKey(positions, trades'[k].pair)
      ]_vars

\* C2 witness: the entries of a date have been processed, a row of the date
\* carries an entry signal for a pair whose position was opened on an earlier
\* date, and that position is still held.
C2_Witness ==
    /\ engine = "SB" /\ pc = "mark"
    /\ \E i \in 1..Len(day_data) :
          /\ EntrySignal(day_data[i])
          /\ HasKey(positions, day_data[i].Pair_ID)
          /\ ~TradedToday(day_data[i].Pair_ID)

\* C3 (as claimed): in _run_simulation no two open positions belong to the
\* same pair.
C3_NoPyramiding ==
    \A i, j \in 1..Len(open_positions) :
        i # j => open_positions[i].pair # open_positions[j].pair

\* C4 (as claimed): available_capital + invested capital of the open
\* positions + realized pnl of the closed positions - total_cost of all
\* trades = total_capital.
C4_ConservationAsClaimed ==
    available_capital + SumInvested(open_positions) + SumClosedPnl(closed) - paid_cost
        = Dollars(total_capital)

\* C4 (amended): available_capital + invested capital of the open positions
\* - realized pnl of the closed positions + total_cost of all trades
\* = total_capital, after every processed row.
C4_Conservation ==
    available_capital + SumInvested(open_positions) - SumClosedPnl(closed) + paid_cost
        = Dollars(total_capital)

\* C4 witness: a position has been closed with a loss, another is open, and
\* costs have been paid.
C4_Witness ==
    /\ engine = "PM" /\ SumClosedPnl(closed) < 0 /\ open_positions # <<>> /\ paid_cost > 0

\* C5: at every recorded equity point, available_capital plus the invested
\* capital of the open positions equals equity, and the point recorded is
\* that equity.
C5_LedgerReconciles ==
    /\ available_capital + SumInvested(open_positions) = equity
    /\ equity_history # <<>> => equity_history[Len(equity_history)] = equity

\* C5 witness: a recorded point after two trades, one closed with a gain and
\* one still open.
C5_Witness ==
    /\ engine = "PM" /\ trade_count >= 2 /\ Len(open_positions) = 1
    /\ closed # <<>> /\ SumClosedPnl(closed) > 0
    /\ equity_history # <<>>

\* C6 (as claimed): after SimpleBacktest.run returns, positions is empty.
C6_DrainLeavesNothingOpen ==
    (engine = "SB" /\ pc = "done") => positions = <<>>

\* C7 (as claimed): at the end of _run_simulation no position remains open,
\* so every pnl of an opened position has reached equity.
C7_HorizonDrain ==
    (engine = "PM" /\ pc = "done") =>
        /\ open_positions = <<>>
        /\ Len(closed) = trade_count

\* C8 (as claimed): for each pair the records of the trade log alternate
\* entry, exit, entry, ... starting with an entry, and after run the pair has
\* as many exit records as entry records.
C8_EveryEntryHasOneExit ==
    \A p \in Pairs :
        LET ts == TradesOf(p)
        IN  /\ \A i \in 1..Len(ts) :
                  ts[i].type = IF i % 2 = 1 THEN "entry" ELSE "exit"
            /\ pc = "done" => Len(Exits(ts)) = Len(Entries(ts))

\* the weekdays after day a up to and including day b
WeekdaysBetween(a, b) == Cardinality({d \in (a + 1)..b : Weekday(d) < 5})

\* C9 (as claimed): every position that is closed is closed at the row dated
\* its scheduled close date.
C9_ClosedOnCloseDate ==
    \A i \in 1..Len(closed) : closed[i].closed_on = closed[i].pos.close_date

\* C9 (amended): the scheduled close date of a position is the weekday
\* hold_period weekdays after its open date; a position is never closed
\* before that date; it is closed at the first processed row dated on or
\* after it, so no position stays open at a row dated on or after its close
\* date, and it is closed on the close date itself when a row has that date.
C9_ClosedAtFirstRowFromCloseDate ==
    /\ \A i \in 1..Len(closed) :
          LET c == closed[i]
          IN  /\ Weekday(c.pos.close_date) < 5
              /\ WeekdaysBetween(c.pos.open_date, c.pos.close_date) = hold_period
              /\ c.closed_on >= c.pos.close_date
              /\ \A k \in 1..Len(sim_index) :
                    ~(c.pos.close_date <= sim_index[k] /\ sim_index[k] < c.closed_on)
    /\ \A i \in 1..Len(open_positions) :
          /\ WeekdaysBetween(open_positions[i].open_date, open_positions[i].close_date)
                 = hold_period
          /\ sim_index # <<>> => date < open_positions[i].close_date

\* C9 witness: a position opened on a Friday, due on the Tuesday after the
\* weekend, was closed at a later row because no row was dated that Tuesday.
C9_Witness ==
    \E i \in 1..Len(closed) :
        /\ Weekday(closed[i].pos.open_date) = 4
        /\ closed[i].pos.close_date = closed[i].pos.open_date + 4
        /\ closed[i].closed_on > closed[i].pos.close_date

\* C10: in SimpleBacktest.run the loop closes a position on a date exactly
\* when the pair has a row on that date with |Z_Score| < EXIT_Z, so a
\* position is closed on the first such date after its entry and on no
\* earlier one; and on Scenario 1 (Z-scores -2.0, -2.0, 0.3, prediction 0.9)
\* the trade log is an entry LONG on day 1 and an exit on day 3.
C10_SignalReversalExit ==
    [][ /\ (engine = "SB" /\ pc = "loop") =>
              \A p \in Pairs :
                  HasKey(positions, p) =>
                      (~HasKey(positions', p)
                          <=> \E i \in 1..Len(day_data') :
                                  /\ day_data'[i].Pair_ID = p
                                  /\ Abs(day_data'[i].Z_Score) < EXIT_Z)
        /\ (engine = "SB" /\ pc \in {"entries", "mark"}) =>
              \A p \in Pairs : HasKey(positions, p) => HasKey(positions', p)
        /\ (scenario1' = Len(Scenario1) /\ pc' = "done") =>
              /\ Len(trades') = 2
              /\ trades'[1] = [date |-> 1, pair |-> "A", type |-> "entry",
                               direction |-> "LONG"]
              /\ trades'[2].type = "exit" /\ trades'[2].pair = "A"
              /\ trades'[2].date = 3
      ]_vars

\* C10 witness: Scenario 1 has been run to its end.
C10_Witness ==
    engine = "SB" /\ scenario1 = Len(Scenario1) /\ pc = "done" /\ Len(trades) = 2

\* C11: in PortfolioManager._run_simulation, whenever an entry signal fires
\* while, after the expired positions of the row are closed, the number of open
\* positions equals max_positions or available_capital is below
\* capital_per_trade * 1.1, then no position is created: skipped_count grows
\* by exactly 1, trade_count is unchanged, available_capital, equity and
\* open_positions are what the closes left, the equity point recorded is that
\* equity, and the loop goes on.  available_capital is below the float64
\* product when its exact amount is below 11/10 of capital_per_trade, or
\* equals it and is still the constructor's total_capital; at a computed
\* balance of exactly that amount the float64 comparison decides, and the
\* step is that no-op or opens one position.  Stated of a step that
\* processes a row: if the closes leave the entry rejected and the step is not
\* the no-op (or leave it to the float64 comparison and the step is neither),
\* then no row with an entry signal is the row it processed (the rows
\* quantified over are the rows of PMRows that carry the date of the step).
C11_RejectedEntryIsNoOp ==
    [][ (engine = "PM" /\ pc = "rows" /\ Len(sim_index') > Len(sim_index)) =>
          LET S == CloseExpired([available_capital |-> available_capital,
                                 equity |-> equity,
                                 open_positions |-> open_positions,
                                 closed |-> closed],
                                open_positions, date')
              rejected ==
                  \/ Len(S.open_positions) = max_positions
                  \/ S.available_capital < BufferedCapital
                  \/ S.available_capital = BufferedCapital /\ trade_count = 0
              float_decides ==
                  /\ ~rejected
                  /\ S.available_capital = BufferedCapital
              no_op ==
                  /\ skipped_count' = skipped_count + 1
                  /\ trade_count' = trade_count
                  /\ available_capital' = S.available_capital
                  /\ equity' = S.equity
                  /\ open_positions' = S.open_positions
                  /\ equity_history' = Append(equity_history, S.equity)
                  /\ position_history' = Append(position_history, Len(S.open_positions))
                  /\ pc' = "rows"
              opened ==
                  /\ skipped_count' = skipped_count
                  /\ trade_count' = trade_count + 1
                  /\ Len(open_positions') = Len(S.open_positions) + 1
                  /\ pc' = "rows"
          IN  ((rejected /\ ~no_op) \/ (float_decides /\ ~no_op /\ ~opened)) =>
                \A z \in ZScores, lstm \in BinaryPreds, ridge \in BinaryPreds,
                   p \in Pairs, tr \in TargetReturns :
                    LET row == [date |-> date', Pair_ID |-> p, Z_Score |-> z,
                                LSTM_Pred |-> lstm, Ridge_Pred |-> ridge,
                                Target_Return |-> tr,
                                Target_Direction |-> TargetDirection(tr)]
                    IN  ~(HasSignal(strategy, row) /\ PMProcessRow(row))
      ]_vars

\* C11 witness: a signal has been skipped for want of capital alone: fewer
\* positions than max_positions are open and available_capital is below
\* 11/10 of capital_per_trade (Scenario 4).
C11_Witness ==
    /\ engine = "PM" /\ skipped_count > 0 /\ trade_count > 0
    /\ Len(open_positions) < max_positions
    /\ available_capital < BufferedCapital
    /\ position_history[Len(position_history)] = Len(open_positions)
\* C12: in SimpleBacktest.run, while the loop over the dates runs, every
\* trade record is appended before the equity point of its date is recorded;
\* an exit record of a date is never appended after an entry record of that
\* date (the exits of the date are resolved first); and the equity point of
\* a date is recorded after the entries, as realized_equity plus the
\* unrealized pnl of the positions then held, those opened on the date
\* included.
C12_StepOrdering ==
    [][ (engine = "SB" /\ pc' # "done") =>
          /\ \A k \in (Len(trades) + 1)..Len(trades') :
                /\ trades'[k].date = Len(equity_curve) + 1
                /\ trades'[k].type = "exit" =>
                      \A i \in 1..(k - 1) :
                          ~(trades'[i].type = "entry" /\ trades'[i].date = trades'[k].date)
          /\ Len(equity_curve') > Len(equity_curve) =>
                /\ equity_curve' = Append(equity_curve,
                                          <<date, realized_equity + Unrealized(positions, day_data)>>)
                /\ \A i \in 1..Len(trades) : trades[i].date <= date
                /\ trades' = trades /\ positions' = positions
      ]_vars

\* C12 witness: with max_positions = 1, pair A was closed and pair B opened
\* on the same date, the exit record before the entry record, and the equity
\* point of that date carries the unrealized pnl of the position opened on it.
C12_Witness ==
    /\ engine = "SB" /\ max_positions = 1 /\ Len(equity_curve) = date
    /\ \E i \in 1..Len(trades) :
          /\ i < Len(trades)
          /\ trades[i].type = "exit" /\ trades[i].date = date
          /\ trades[i + 1].type = "entry" /\ trades[i + 1].date = date
          /\ trades[i + 1].pair # trades[i].pair
    /\ equity_curve[date] # <<date, realized_equity>>
    /\ Len(positions) = 1

\* C13: _close_position called for a pair_id that holds no position changes
\* nothing (positions, realized_equity and trades are the same, no record is
\* appended), and called a second time for the same pair, price and date it
\* leaves the state the first call left.
C13_CloseIdempotent ==
    engine = "SB" =>
        \A pair_id \in Pairs, spread_price \in Spreads :
            LET once == _close_position(CurLedger, pair_id, spread_price, date, "Mean Reversion")
                twice == _close_position(once, pair_id, spread_price, date, "Mean Reversion")
            IN  /\ ~HasKey(positions, pair_id) => once = CurLedger
                /\ HasKey(positions, pair_id) =>
                      /\ ~HasKey(once.positions, pair_id)
                      /\ Len(once.trades) = Len(trades) + 1
                /\ twice = once

\* C13 witness: a pair was closed by the exits of the current date and holds
\* nothing now, while the other pair holds a position: a second close of the
\* first pair on this date finds no position.
C13_Witness ==
    /\ engine = "SB" /\ pc = "entries"
    /\ \E i \in 1..Len(trades) :
          /\ trades[i].type = "exit" /\ trades[i].date = date
          /\ ~HasKey(positions, trades[i].pair)
    /\ positions # <<>>

\* C15 (as claimed): every exit record of the trade log carries direction,
\* realized_pnl, pnl_pct and a close_reason among MeanReversion, Horizon and
\* EndOfBacktest.
C15_ExitRecordFields ==
    \A i \in 1..Len(trades) :
        trades[i].type = "exit" =>
            /\ {"direction", "realized_pnl", "pnl_pct", "close_reason"} \subseteq DOMAIN trades[i]
            /\ trades[i].close_reason \in {"MeanReversion", "Horizon", "EndOfBacktest"}

\* the dates of the rows processed so far, each once
ProcessedDates == {sim_index[k] : k \in 1..Len(sim_index)}

\* C16 (as claimed): the equity curve has exactly one point per processed
\* date and its dates are strictly increasing, in SimpleBacktest.run
\* (equity_curve) and in _run_simulation (the equity series, whose index is
\* sim_df.index).
C16_OnePointPerDate ==
    /\ engine = "SB" =>
          /\ Len(equity_curve) = (IF pc \in {"entries", "mark"} THEN date - 1 ELSE date)
          /\ \A i \in 1..Len(equity_curve) : equity_curve[i][1] = i
    /\ engine = "PM" =>
          /\ Len(equity_history) = Len(sim_index)
          /\ Len(equity_history) = Cardinality(ProcessedDates)
          /\ \A i \in 2..Len(sim_index) : sim_index[i - 1] < sim_index[i]

\* What C17 states of a position opened with capital C = invested: its cost
\* is commission + C * slippage_pct + C * spread_pct, plus
\* C * short_borrow_rate * hold_period / 365 for a Short and for a Short only;
\* its pnl is +C * |target_return| when direction and outcome agree (Long
\* with target_direction 1, Short with target_direction 0), -C * |target_return|
\* otherwise.
ClaimedCost(pos) ==
    Dollars(cost_per_trade)
        + (pos.invested * slippage_pct) \div 10000
        + (pos.invested * spread_pct) \div 10000
        + (IF pos.direction = "Short"
           THEN (pos.invested * short_borrow_rate * hold_period) \div (100 * 365)
           ELSE 0)
ClaimedPnl(pos) ==
    LET gain == (pos.invested * Abs(pos.target_return)) \div 100
        agree == \/ pos.direction = "Long" /\ pos.target_direction = 1
                 \/ pos.direction = "Short" /\ pos.target_direction = 0
    IN  IF agree THEN gain ELSE -gain
RECURSIVE SumClaimedCost(_)
SumClaimedCost(ps) ==
    IF ps = <<>> THEN 0 ELSE ClaimedCost(Head(ps)) + SumClaimedCost(Tail(ps))
RECURSIVE SumClaimedPnl(_)
SumClaimedPnl(ps) ==
    IF ps = <<>> THEN 0 ELSE ClaimedPnl(Head(ps)) + SumClaimedPnl(Tail(ps))
ClosedPositions == [i \in 1..Len(closed) |-> closed[i].pos]

\* C17: in _run_simulation every position changes equity by minus its
\* total_cost at its open and by its pnl at its close, that is by
\* +C*|r| - total_cost or -C*|r| - total_cost from before its open to after
\* its close: equity is total_capital, less the cost of every position opened
\* so far, plus the pnl of every position closed so far, with cost and pnl as
\* the claim states them; and the pnl a position holds is that pnl.
C17_HorizonPnlNetOfCost ==
    engine = "PM" =>
        /\ \A i \in 1..Len(open_positions) :
              open_positions[i].pnl = ClaimedPnl(open_positions[i])
        /\ \A i \in 1..Len(closed) : closed[i].pos.pnl = ClaimedPnl(closed[i].pos)
        /\ equity = Dollars(total_capital)
                        - SumClaimedCost(open_positions) - SumClaimedCost(ClosedPositions)
                        + SumClaimedPnl(ClosedPositions)

\* C17 witness: Scenario 5.  The only trade so far was a Short on a row with
\* Target_Return -0.05 and Target_Direction 0, it is closed, and equity has
\* changed by 5 dollars less the cost of a Short (borrow cost included).
C17_Witness ==
    /\ engine = "PM" /\ trade_count = 1 /\ Len(closed) = 1 /\ open_positions = <<>>
    /\ closed[1].pos.direction = "Short"
    /\ closed[1].pos.target_return = -5 /\ closed[1].pos.target_direction = 0
    /\ equity - Dollars(total_capital) = Dollars(5) - ClaimedCost(closed[1].pos)
    /\ ClaimedCost(closed[1].pos) > Dollars(cost_per_trade)

\* C18: for every start date and every days >= 1, _add_trading_days(start,
\* days) is a weekday and exactly `days` weekdays lie after start up to and
\* including it; a Friday plus 5 is the Friday after and a Friday plus 1 the
\* Monday after.
C18_TradingDayStepping ==
    pc = "returned" =>
        /\ Weekday(call.result) < 5
        /\ call.result > call.start_date
        /\ WeekdaysBetween(call.start_date, call.result) = call.days
        /\ (Weekday(call.start_date) = 4 /\ call.days = 5) =>
              call.result = call.start_date + 7
        /\ (Weekday(call.start_date) = 4 /\ call.days = 1) =>
              call.result = call.start_date + 3

\* C18 witness: the call for a Friday and 5 trading days has returned the
\* Friday after (Scenario 3).
C18_Witness ==
    /\ pc = "returned" /\ Weekday(call.start_date) = 4 /\ call.days = 5
    /\ Weekday(call.result) = 4 /\ call.result = call.start_date + 7

\* C19 (as claimed): on a signal stream that lacks a field the simulation
\* reads, a run that fails has processed no row and changed no ledger state,
\* and no run completes normally.
C19_ValidationPrecedesSimulation ==
    /\ (engine = "PM" /\ pc = "failed") =>
          /\ sim_index = <<>>
          /\ equity = Dollars(total_capital)
          /\ available_capital = Dollars(total_capital)
          /\ open_positions = <<>> /\ closed = <<>>
    /\ (engine = "SB" /\ pc = "failed") =>
          /\ realized_equity = initial_capital
          /\ positions = <<>> /\ trades = <<>> /\ equity_curve = <<>>
    /\ pc = "done" => FieldsRead(engine, strategy) \subseteq columns

RECURSIVE SumRealized(_)
SumRealized(ts) ==
    IF ts = <<>> THEN 0
    ELSE (IF Head(ts).type = "exit" THEN Head(ts).realized_pnl ELSE 0) + SumRealized(Tail(ts))

\* the pair has no row among rows, or its row has a NaN Z_Score
NonActionable(rows, p) ==
    \A i \in 1..Len(rows) : rows[i].Pair_ID = p => rows[i].Z_Score = NaN

\* C20: in the exits and the entries of a date in SimpleBacktest.run, a pair
\* whose row has a NaN Z_Score, or that has no row on the date, is left as it
\* is: it holds a position after the step exactly if it held one before, the
\* position is unchanged, and no trade record is appended for it;
\* realized_equity changes by the realized pnl of the exit records appended
\* (those of other pairs) and by nothing else.
C20_NonActionableIsNoAction ==
    [][ (engine = "SB" /\ pc \in {"loop", "entries"} /\ day_data' # <<>>) =>
          /\ \A p \in Pairs :
                NonActionable(day_data', p) =>
                    /\ HasKey(positions', p) <=> HasKey(positions, p)
                    /\ HasKey(positions, p) => Get(positions', p) = Get(positions, p)
                    /\ \A k \in (Len(trades) + 1)..Len(trades') : trades'[k].pair # p
          /\ realized_equity' = realized_equity
                                    + SumRealized(SubSeq(trades', Len(trades) + 1, Len(trades')))
          /\ pc' \in {"entries", "mark"}
      ]_vars

\* C20 witness: after the exits and the entries of a date, both pairs hold a
\* position opened on an earlier date; on this date one pair has a row with
\* a NaN Z_Score and the other has no row.
C20_Witness ==
    /\ engine = "SB" /\ pc = "mark" /\ Len(positions) = 2
    /\ Len(day_data) = 1 /\ day_data[1].Z_Score = NaN
    /\ \A i \in 1..Len(trades) : trades[i].date < date

\* C21: when SimpleBacktest.run has returned with every position closed, on
\* a df sorted by date (each pair still held after the loop had a row on the
\* last date, so the drain closed it), realized_equity equals the
\* total_equity of the last point of the equity curve: the drain closes at
\* the prices the last mark-to-market valued the positions at.
C21_DrainEquityNeutral ==
    (engine = "SB" /\ pc = "done" /\ positions = <<>> /\ equity_curve # <<>>) =>
        realized_equity = equity_curve[Len(equity_curve)][2]

\* C21 witness: run has returned with nothing open, and the drain closed a
\* position opened on the last date (its exit record follows its entry
\* record of the same date) with a pnl that is not zero.
C21_Witness ==
    /\ engine = "SB" /\ pc = "done" /\ positions = <<>>
    /\ equity_curve # <<>> /\ equity_curve[Len(equity_curve)][1] = date
    /\ \E i, j \in 1..Len(trades) :
          /\ i < j
          /\ trades[i].type = "entry" /\ trades[i].date = date
          /\ trades[j].type = "exit" /\ trades[j].date = date
          /\ trades[j].pair = trades[i].pair
          /\ trades[j].realized_pnl # 0

\* C22: after every processed row of PortfolioManager._run_simulation,
\* trade_count + skipped_count is the number of rows processed so far on
\* which the strategy's entry condition held, and the position count recorded
\* for the row is the number of positions opened so far minus the number
\* closed so far.
C22_SignalAccounting ==
    (engine = "PM" /\ sim_index # <<>>) =>
        /\ trade_count + skipped_count = signal_count
        /\ Len(position_history) = Len(sim_index)
        /\ position_history[Len(position_history)] = trade_count - Len(closed)

\* C22 witness: signals were executed and skipped, a position was closed and
\* another is open
C22_Witness ==
    /\ engine = "PM" /\ sim_index # <<>>
    /\ trade_count > 1 /\ skipped_count > 0
    /\ closed # <<>> /\ open_positions # <<>>

\* C23: available_capital is never negative at any point of
\* PortfolioManager._run_simulation, whatever the signal stream and the
\* configuration: the buffer tested before an open covers what the open takes,
\* and no close credits an amount that takes it below zero.
C23_AvailableNeverNegative ==
    engine = "PM" => available_capital >= 0

\* C24: each call of SimpleBacktest.run starts from a clean ledger (nothing
\* open, no trade record, no curve point, realized_equity at the initial
\* capital), and the equity curve it returns has exactly the points of that
\* call, one per date of df in date order.
C24_RunStartsClean ==
    engine = "SB" =>
        /\ (pc = "loop" /\ date = 0) =>
               /\ realized_equity = initial_capital
               /\ positions = <<>>
               /\ trades = <<>>
               /\ equity_curve = <<>>
        /\ pc = "done" =>
               /\ Len(equity_curve) = date
               /\ \A i \in 1..Len(equity_curve) : equity_curve[i][1] = i
====
